---- MODULE Spec2Model ----
(***************************************************************************)
(* Traffic shifting of senza (senza/traffic.py): one invocation of         *)
(* change_version_traffic reads the weighted DNS records of a domain name, *)
(* computes the new weights (calculate_new_weights, compensate) and sends  *)
(* the change batch to Route53 (set_new_weights).                          *)
(***************************************************************************)
EXTENDS Integers, Sequences, FiniteSets, TLC

(* ------------------------------ bounds --------------------------------- *)

\* number of stack versions known to the version registry
NumIds == 4

\* number of invocations of change_version_traffic in one behaviour
MaxShifts == 1

(* ------------------------- program constants --------------------------- *)

PERCENT_RESOLUTION == 2

FULL_PERCENTAGE == PERCENT_RESOLUTION * 100

\* TTL of the record that set_new_weights synthesizes
NEW_RECORD_TTL == 20

(* ----------------------------- helpers --------------------------------- *)

Max(a, b) == IF a >= b THEN a ELSE b

\* Python's int(a / b) for b > 0: the quotient truncated toward zero
TruncDiv(a, b) == IF a >= 0 THEN a \div b ELSE -((-a) \div b)

RECURSIVE SumOver(_, _)
\* Python's sum(d.values()) restricted to the keys in S
SumOver(f, S) ==
    IF S = {} THEN 0
    ELSE LET x == CHOOSE y \in S : TRUE IN f[x] + SumOver(f, S \ {x})

\* sum(new_record_weights.values())
SumValues(f) == SumOver(f, DOMAIN f)

(* ------------------------- the version registry ------------------------ *)

\* the identifiers of the stack versions (StackVersion.identifier)
Ids == 1 .. NumIds

\* identifier -> version; versions are unique per stack, compared as ranks
identifier_versions == [i \in Ids |-> i]

\* StackVersion.dns_name of the stack, and another name in the same zone
DnsName == "app.example.org."

OtherName == "other.example.org."

\* StackVersion.lb_dns_name of a version
LbDnsName(i) == i

Rec(type, name, id, weight, ttl, value) ==
    [Type |-> type, Name |-> name, SetIdentifier |-> id, Weight |-> weight,
     TTL |-> ttl, Value |-> value]

\* records of the zone that do not belong to the weighted group of DnsName
ForeignRecords ==
    { Rec("CNAME", OtherName, 1, 7, 60, LbDnsName(1)),
      Rec("A", DnsName, 2, 9, 60, LbDnsName(2)) }


(* --------------------------- get_records ------------------------------- *)

\* Route53 lists the record sets of a zone ordered by name, type, identifier
RecordKey(r) ==
    (IF r.Name = DnsName THEN 0 ELSE 2 * (NumIds + 1))
    + (IF r.Type = "A" THEN 0 ELSE NumIds + 1)
    + r.SetIdentifier

RECURSIVE SortRecords(_)
SortRecords(S) ==
    IF S = {} THEN << >>
    ELSE LET r == CHOOSE x \in S : \A y \in S : RecordKey(x) <= RecordKey(y)
         IN  << r >> \o SortRecords(S \ {r})

\* get_records: the complete list of the zone's record sets
get_records(zone) == SortRecords(zone)

(* --------------------------- get_weights ------------------------------- *)

\* the positions of rr that get_weights and set_new_weights look at
Matching(dns_name, list) ==
    { k \in 1 .. Len(list) :
        list[k].Type = "CNAME" /\ list[k].Name = dns_name }

\* w of traffic.py:23-26
RecordWeight(r) == IF r.Weight # 0 THEN r.Weight ELSE 0

\* the positions that count for partial_count and partial_sum
Partial(dns_name, ident, list) ==
    { k \in Matching(dns_name, list) :
        list[k].SetIdentifier # ident /\ RecordWeight(list[k]) > 0 }

RECURSIVE SumWeights(_, _)
SumWeights(list, K) ==
    IF K = {} THEN 0
    ELSE LET k == CHOOSE x \in K : TRUE
         IN  RecordWeight(list[k]) + SumWeights(list, K \ {k})

\* get_weights that counts the record of the identifier itself as partial
CountsTarget(dns_name, ident, list, registry) ==
    LET M    == Matching(dns_name, list)
        keys == { list[k].SetIdentifier : k \in M } \cup {ident} \cup registry
        last(i) == CHOOSE k \in M : /\ list[k].SetIdentifier = i
                                    /\ \A j \in M : list[j].SetIdentifier = i => j <= k
        P    == { k \in M : RecordWeight(list[k]) > 0 }
    IN  [ known |-> [ i \in keys |->
                        IF \E k \in M : list[k].SetIdentifier = i
                        THEN RecordWeight(list[last(i)]) ELSE 0 ],
          partial_count |-> Cardinality(P),
          partial_sum   |-> SumWeights(list, P) ]

\* traffic.py:12-38
get_weights(dns_name, ident, list, registry) ==
    LET M    == Matching(dns_name, list)
        keys == { list[k].SetIdentifier : k \in M } \cup {ident} \cup registry
        \* a later record of the same identifier overwrites an earlier one
        last(i) == CHOOSE k \in M : /\ list[k].SetIdentifier = i
                                    /\ \A j \in M : list[j].SetIdentifier = i => j <= k
        P    == Partial(dns_name, ident, list)
    IN  [ known |-> [ i \in keys |->
                        IF \E k \in M : list[k].SetIdentifier = i
                        THEN RecordWeight(list[last(i)]) ELSE 0 ],
          partial_count |-> Cardinality(P),
          partial_sum   |-> SumWeights(list, P) ]

(* ----------------------- calculate_new_weights ------------------------- *)

\* NewWeight without the floor max(1, .)
NoFloorWeight(d, ident, i, w, pct) ==
    IF i = ident THEN pct
    ELSE IF pct = FULL_PERCENTAGE THEN 0
    ELSE IF w > 0 THEN w + d
    ELSE 0

\* NewWeight without the branch that disables the others on a full cutover
NoCutoverWeight(d, ident, i, w, pct) ==
    IF i = ident THEN pct
    ELSE IF w > 0 THEN Max(1, w + d)
    ELSE 0

\* NewWeight with delta also added to the target
TargetDeltaWeight(d, ident, i, w, pct) ==
    IF i = ident THEN Max(0, pct + d)
    ELSE IF pct = FULL_PERCENTAGE THEN 0
    ELSE IF w > 0 THEN Max(1, w + d)
    ELSE 0

\* n of traffic.py:45-58 for one item (i, w) of known_record_weights
\* NewWeight with delta taken in proportion to the old weight
ProportionalWeight(d, ident, i, w, pct) ==
    IF i = ident THEN pct
    ELSE IF pct = FULL_PERCENTAGE THEN 0
    ELSE IF w > 0 THEN Max(1, w + TruncDiv(d * w, FULL_PERCENTAGE \div 2))
    ELSE 0

NewWeight(d, ident, i, w, pct) ==
    IF i = ident THEN pct
    ELSE IF pct = FULL_PERCENTAGE THEN 0
    ELSE IF w > 0 THEN Max(1, w + d)
    ELSE 0

calculate_new_weights(d, ident, known, pct) ==
    LET new == [ i \in DOMAIN known |-> NewWeight(d, ident, i, known[i], pct) ]
    IN  [ new_record_weights |-> new,
          deltas |-> [ i \in DOMAIN known |-> new[i] - known[i] ] ]

(* ----------------------------- compensate ------------------------------ *)

\* part of traffic.py:73-77
\* Part with the quotient rounded away from zero
PartCeil(err, count) ==
    IF err > 0 THEN Max(1, (err + count - 1) \div count)
    ELSE -Max(1, ((-err) + count - 1) \div count)

Part(err, count) ==
    IF err > 0 THEN Max(1, err \div count)
    ELSE -Max(1, (-err) \div count)

RECURSIVE SortedAsc(_, _)
\* SortedDesc without reverse=True
SortedAsc(keys, versions) ==
    IF keys = {} THEN << >>
    ELSE LET m == CHOOSE x \in keys : \A y \in keys : versions[x] <= versions[y]
         IN  << m >> \o SortedAsc(keys \ {m}, versions)

RECURSIVE SortedDesc(_, _)
\* sorted(keys, key=lambda x: versions[x], reverse=True)
SortedDesc(keys, versions) ==
    IF keys = {} THEN << >>
    ELSE LET m == CHOOSE x \in keys : \A y \in keys : versions[x] >= versions[y]
         IN  << m >> \o SortedDesc(keys \ {m}, versions)

\* the map c with c[i] = v assigned
Assign(c, i, v) == [ k \in DOMAIN c \cup {i} |-> IF k = i THEN v ELSE c[k] ]

RECURSIVE UnguardedLoop(_, _, _, _, _)
\* CompensateLoop without the skip of traffic.py:83-85
UnguardedLoop(order, ident, step, st, k) ==
    IF k > Len(order) THEN st
    ELSE LET i  == order[k]
         IN  IF i = ident
             THEN UnguardedLoop(order, ident, step, st, k + 1)
             ELSE LET nx == [ weights |-> [ st.weights EXCEPT ![i] = @ + step ],
                              error |-> st.error - step,
                              compensations |-> Assign(st.compensations, i, step),
                              visited |-> Append(st.visited, i) ]
                  IN  IF nx.error = 0 THEN nx
                      ELSE UnguardedLoop(order, ident, step, nx, k + 1)

RECURSIVE CompensateLoop(_, _, _, _, _)
\* the for loop of traffic.py:79-90 over the remaining identifiers order,
\* on the loop state st = [weights, error, compensations, visited]
CompensateLoop(order, ident, step, st, k) ==
    IF k > Len(order) THEN st
    ELSE LET i  == order[k]
             nw == st.weights[i] + step
         IN  IF i = ident \/ nw <= 0
             THEN CompensateLoop(order, ident, step, st, k + 1)
             ELSE LET nx == [ weights |-> [ st.weights EXCEPT ![i] = nw ],
                              error |-> st.error - step,
                              compensations |-> Assign(st.compensations, i, step),
                              visited |-> Append(st.visited, i) ]
                  IN  IF nx.error = 0 THEN nx
                      ELSE CompensateLoop(order, ident, step, nx, k + 1)

\* compensate without traffic.py:91-100: what the loop leaves of the error
\* is not moved to the target
LoopOnly(err, comps, ident, weights, count, pct, versions) ==
    LET step == Part(err, Max(1, count))
        st   == CompensateLoop(SortedDesc(DOMAIN weights, versions), ident,
                    step, [ weights |-> weights, error |-> err,
                            compensations |-> comps, visited |-> << >> ], 1)
    IN  [ asserted |-> count # 0 /\ st.error = 0, weights |-> st.weights,
          compensations |-> st.compensations, percentage |-> pct,
          part |-> step, visited |-> st.visited, left_error |-> st.error,
          warned |-> 0 ]

\* compensate with the warning of traffic.py:97-100 outside the `if error`
AlwaysWarns(err, comps, ident, weights, count, pct, versions) ==
    LET step == Part(err, Max(1, count))
        st   == CompensateLoop(SortedDesc(DOMAIN weights, versions), ident,
                    step, [ weights |-> weights, error |-> err,
                            compensations |-> comps, visited |-> << >> ], 1)
    IN  [ asserted |-> count # 0,
          weights |-> IF st.error # 0
                      THEN [ st.weights EXCEPT ![ident] = pct + st.error ]
                      ELSE st.weights,
          compensations |-> IF st.error # 0
                            THEN Assign(st.compensations, ident, st.error)
                            ELSE st.compensations,
          percentage |-> pct + st.error, part |-> step,
          visited |-> st.visited, left_error |-> st.error, warned |-> 1 ]

\* compensate that adjusts the target without recording its compensation
TargetUnrecorded(err, comps, ident, weights, count, pct, versions) ==
    IF count = 0
    THEN [ asserted |-> FALSE, weights |-> weights, compensations |-> comps,
           percentage |-> pct, part |-> 0, visited |-> << >>,
           left_error |-> err, warned |-> 0 ]
    ELSE
    LET step  == Part(err, count)
        order == SortedDesc(DOMAIN weights, versions)
        st    == CompensateLoop(order, ident, step,
                     [ weights |-> weights, error |-> err,
                       compensations |-> comps, visited |-> << >> ], 1)
    IN  IF st.error # 0
        THEN [ asserted |-> TRUE,
               weights |-> [ st.weights EXCEPT ![ident] = pct + st.error ],
               compensations |-> st.compensations,
               percentage |-> pct + st.error, part |-> step,
               visited |-> st.visited, left_error |-> st.error, warned |-> 1 ]
        ELSE [ asserted |-> TRUE, weights |-> st.weights,
               compensations |-> st.compensations,
               percentage |-> pct, part |-> step,
               visited |-> st.visited, left_error |-> 0, warned |-> 0 ]

\* compensate; asserted is FALSE when one of its assertions fails
compensate(err, comps, ident, weights, count, pct, versions) ==
    IF count = 0
    THEN [ asserted |-> FALSE, weights |-> weights, compensations |-> comps,
           percentage |-> pct, part |-> 0, visited |-> << >>,
           left_error |-> err, warned |-> 0 ]
    ELSE
    LET step  == Part(err, count)
        order == SortedDesc(DOMAIN weights, versions)
        st    == CompensateLoop(order, ident, step,
                     [ weights |-> weights, error |-> err,
                       compensations |-> comps, visited |-> << >> ], 1)
    IN  IF st.error # 0
        THEN [ asserted |-> TRUE,
               weights |-> [ st.weights EXCEPT ![ident] = pct + st.error ],
               compensations |-> Assign(st.compensations, ident, st.error),
               percentage |-> pct + st.error, part |-> step,
               visited |-> st.visited, left_error |-> st.error, warned |-> 1 ]
        ELSE [ asserted |-> TRUE, weights |-> st.weights,
               compensations |-> st.compensations,
               percentage |-> pct, part |-> step,
               visited |-> st.visited, left_error |-> 0, warned |-> 0 ]

(* --------------------------- set_new_weights --------------------------- *)

Change(act, r) == [ Action |-> act, ResourceRecordSet |-> r ]

\* RecordChange whose DELETE carries the new weight, not the stored one
DeleteZeroed(dns_name, weights, r) ==
    IF ~(r.Type = "CNAME" /\ r.Name = dns_name) THEN << >>
    ELSE IF weights[r.SetIdentifier] # 0
    THEN IF r.Weight # weights[r.SetIdentifier]
         THEN << Change("UPSERT", [ r EXCEPT !.Weight = weights[r.SetIdentifier] ]) >>
         ELSE << >>
    ELSE << Change("DELETE", [ r EXCEPT !.Weight = weights[r.SetIdentifier] ]) >>

\* RecordChange with an UPSERT for every record that keeps a weight
AlwaysUpsertChange(dns_name, weights, r) ==
    IF ~(r.Type = "CNAME" /\ r.Name = dns_name) THEN << >>
    ELSE IF weights[r.SetIdentifier] # 0
    THEN << Change("UPSERT", [ r EXCEPT !.Weight = weights[r.SetIdentifier] ]) >>
    ELSE << Change("DELETE", r) >>

\* RecordChange that leaves a record alone when its final weight is 0
KeepZeroChange(dns_name, weights, r) ==
    IF ~(r.Type = "CNAME" /\ r.Name = dns_name) THEN << >>
    ELSE IF weights[r.SetIdentifier] # 0 /\ r.Weight # weights[r.SetIdentifier]
    THEN << Change("UPSERT", [ r EXCEPT !.Weight = weights[r.SetIdentifier] ]) >>
    ELSE << >>

\* RecordChange with a weight of 0 written by an UPSERT
UpsertZeroChange(dns_name, weights, r) ==
    IF ~(r.Type = "CNAME" /\ r.Name = dns_name) THEN << >>
    ELSE IF r.Weight # weights[r.SetIdentifier]
    THEN << Change("UPSERT", [ r EXCEPT !.Weight = weights[r.SetIdentifier] ]) >>
    ELSE << >>

\* the change of traffic.py:111-121 for one record r of the list: a sequence
\* of no or one change
RecordChange(dns_name, weights, r) ==
    IF ~(r.Type = "CNAME" /\ r.Name = dns_name) THEN << >>
    ELSE IF weights[r.SetIdentifier] # 0
    THEN IF r.Weight # weights[r.SetIdentifier]
         THEN << Change("UPSERT", [ r EXCEPT !.Weight = weights[r.SetIdentifier] ]) >>
         ELSE << >>
    ELSE << Change("DELETE", r) >>

RECURSIVE BuildChanges(_, _, _, _)
\* changes after the for loop of traffic.py:109-121 has seen list[1..k]
BuildChanges(dns_name, weights, list, k) ==
    IF k = 0 THEN << >>
    ELSE BuildChanges(dns_name, weights, list, k - 1)
         \o RecordChange(dns_name, weights, list[k])

\* DidTheUpsert set only where an UPSERT was appended
DidTheUpsertOnChange(dns_name, ident, weights, list) ==
    \E k \in 1 .. Len(list) :
        /\ list[k].Type = "CNAME" /\ list[k].Name = dns_name
        /\ weights[list[k].SetIdentifier] # 0
        /\ list[k].Weight # weights[list[k].SetIdentifier]
        /\ ident = list[k].SetIdentifier

\* did_the_upsert after the for loop of traffic.py:109-121
DidTheUpsert(dns_name, ident, weights, list) ==
    \E k \in 1 .. Len(list) :
        /\ list[k].Type = "CNAME" /\ list[k].Name = dns_name
        /\ weights[list[k].SetIdentifier] # 0
        /\ ident = list[k].SetIdentifier

\* ChangeList with a new record whether or not the target has a record
NewRecordAlways(dns_name, ident, lb_dns_name, weights, list) ==
    BuildChanges(dns_name, weights, list, Len(list))
    \o IF weights[ident] > 0
       THEN << Change("UPSERT", Rec("CNAME", dns_name, ident, weights[ident],
                                    NEW_RECORD_TTL, lb_dns_name)) >>
       ELSE << >>

\* ChangeList with a new record also for a target weight of 0
NewRecordWhenZero(dns_name, ident, lb_dns_name, weights, list) ==
    BuildChanges(dns_name, weights, list, Len(list))
    \o IF weights[ident] >= 0 /\ ~DidTheUpsert(dns_name, ident, weights, list)
       THEN << Change("UPSERT", Rec("CNAME", dns_name, ident, weights[ident],
                                    NEW_RECORD_TTL, lb_dns_name)) >>
       ELSE << >>

\* the list changes of set_new_weights at traffic.py:130
ChangeList(dns_name, ident, lb_dns_name, weights, list) ==
    BuildChanges(dns_name, weights, list, Len(list))
    \o IF weights[ident] > 0 /\ ~DidTheUpsert(dns_name, ident, weights, list)
       THEN << Change("UPSERT", Rec("CNAME", dns_name, ident, weights[ident],
                                    NEW_RECORD_TTL, lb_dns_name)) >>
       ELSE << >>

\* HasChanges true of the empty list too
AnyBatch(batch) == TRUE

\* `if changes:` at traffic.py:130
HasChanges(batch) == batch # << >>

SameRecordSet(a, b) ==
    a.Name = b.Name /\ a.Type = b.Type /\ a.SetIdentifier = b.SetIdentifier

RECURSIVE ApplyChanges(_, _, _)
\* route53.change_resource_record_sets: the batch applied in order
ApplyChanges(zone, batch, k) ==
    IF k > Len(batch) THEN zone
    ELSE LET c    == batch[k]
             rest == { r \in zone : ~SameRecordSet(r, c.ResourceRecordSet) }
         IN  ApplyChanges(IF c.Action = "UPSERT"
                          THEN rest \cup { c.ResourceRecordSet }
                          ELSE rest,
                          batch, k + 1)

change_resource_record_sets(zone, batch) == ApplyChanges(zone, batch, 1)

(* ------------------------------ state ---------------------------------- *)

VARIABLES
    records,               \* the record sets stored in the hosted zone
    pc,                    \* position of the invocation
    shifts,                \* invocations started so far
    identifier,            \* the target identifier
    requested,             \* int(percentage * PERCENT_RESOLUTION) as requested
    percentage,            \* the local variable percentage
    rr,                    \* the list returned by get_records
    known_record_weights,
    partial_count,
    partial_sum,
    delta,
    new_record_weights,
    deltas,
    compensations,
    calculation_error,     \* as computed at traffic.py:333
    part,                  \* the step size of compensate (0: not run)
    visited,               \* identifiers that compensate changed, in order
    left_error,            \* calculation_error at the end of compensate's loop
    ran,                   \* which of calculate_new_weights / compensate ran
    warnings,              \* number of warning() calls of the invocation
    changes,               \* the change batch built by set_new_weights
    sink_calls,            \* calls of change_resource_record_sets
    env,                   \* the version asked for, and what exists for it
    other,                 \* a concurrent invocation that applied its batch
    all_identifiers        \* the identifiers of the version registry passed on

vars == << records, pc, shifts, identifier, requested, percentage, rr,
           known_record_weights, partial_count, partial_sum, delta,
           new_record_weights, deltas, compensations, calculation_error,
           part, visited, left_error, ran, warnings, changes, sink_calls,
           env, other, all_identifiers >>


(* ------------------------------ inputs --------------------------------- *)

\* percentage * PERCENT_RESOLUTION truncated by int(); the percentage of the
\* command line is given in hundredths of a percent
ToWeight(hundredths) == (hundredths * PERCENT_RESOLUTION) \div 100

\* the percentages requested on the command line (FloatRange(0, 100))
RequestPercents == { 0, 25, 50, 5000, 9950, 10000 }

\* the weights of the records that exist before the first invocation
InitWeights ==
    { 0, 1, FULL_PERCENTAGE \div 2 - 1, FULL_PERCENTAGE \div 2, FULL_PERCENTAGE }

\* the weighted records of DnsName with the weights w (a map on some versions)
StackRecords(w) ==
    { Rec("CNAME", DnsName, i, w[i], 60, LbDnsName(i)) : i \in DOMAIN w }

\* the weights stored for DnsName
StoredWeights(zone) ==
    { r \in zone : r.Type = "CNAME" /\ r.Name = DnsName }

RECURSIVE SumRecords(_)
SumRecords(S) ==
    IF S = {} THEN 0
    ELSE LET r == CHOOSE x \in S : TRUE IN r.Weight + SumRecords(S \ {r})

StoredSum(zone) == SumRecords(StoredWeights(zone))

\* the versions asked for on the command line: the known ones and another
Versions == DOMAIN identifier_versions \cup { NumIds + 1 }

\* get_version: whether a stack version with that version exists
get_version(versions, version) ==
    \E i \in DOMAIN versions : versions[i] = version

\* Resolution without the ValueError of get_zone
ZoneUnchecked(version, has_domain, zone_exists) ==
    IF ~get_version(identifier_versions, version) THEN "UsageError"
    ELSE IF ~has_domain THEN "UsageError"
    ELSE "ok"

\* traffic.py:302-310: the exception that ends change_version_traffic before
\* the records are read, "ok" when there is none
Resolution(version, has_domain, zone_exists) ==
    IF ~get_version(identifier_versions, version) THEN "UsageError"
    ELSE IF ~has_domain THEN "UsageError"
    ELSE IF ~zone_exists THEN "ValueError"
    ELSE "ok"

Env(version, has_domain, zone_exists) ==
    [ version |-> version, domain |-> has_domain, zone |-> zone_exists ]

\* no concurrent invocation has applied a batch
NoOther == [ version |-> 0, percent |-> 0 ]

(* ------------------------------ actions -------------------------------- *)

NoMap == << >>

Locals0 ==
    /\ identifier = 1
    /\ requested = 0
    /\ percentage = 0
    /\ rr = << >>
    /\ known_record_weights = NoMap
    /\ partial_count = 0
    /\ partial_sum = 0
    /\ delta = 0
    /\ new_record_weights = NoMap
    /\ deltas = NoMap
    /\ compensations = NoMap
    /\ calculation_error = 0
    /\ part = 0
    /\ visited = << >>
    /\ left_error = 0
    /\ ran = {}
    /\ warnings = 0
    /\ changes = << >>
    /\ sink_calls = 0
    /\ env = Env(1, TRUE, TRUE)
    /\ other = NoOther
    /\ all_identifiers = {}

Init ==
    /\ \E S \in SUBSET Ids : \E w \in [S -> InitWeights] :
          /\ SumValues(w) <= FULL_PERCENTAGE
          /\ records = ForeignRecords \cup StackRecords(w)
    /\ pc = "idle"
    /\ shifts = 0
    /\ Locals0

\* traffic.py:297-314: resolve the version, read the records and the weights
Start(v, hundredths, has_domain, zone_exists) ==
    /\ pc = "idle"
    /\ shifts < MaxShifts
    /\ Resolution(v, has_domain, zone_exists) = "ok"
    /\ env' = Env(v, has_domain, zone_exists)
    /\ other' = NoOther
    /\ all_identifiers' = DOMAIN identifier_versions
    /\ shifts' = shifts + 1
    /\ identifier' = v
    /\ requested' = ToWeight(hundredths)
    /\ percentage' = ToWeight(hundredths)
    /\ rr' = get_records(records)
    /\ LET g == get_weights(DnsName, v, rr', all_identifiers')
       IN  /\ known_record_weights' = g.known
           /\ partial_count' = g.partial_count
           /\ partial_sum' = g.partial_sum
    /\ delta' = 0
    /\ new_record_weights' = NoMap
    /\ deltas' = NoMap
    /\ compensations' = NoMap
    /\ calculation_error' = 0
    /\ part' = 0
    /\ visited' = << >>
    /\ left_error' = 0
    /\ ran' = {}
    /\ warnings' = 0
    /\ changes' = << >>
    /\ sink_calls' = 0
    /\ pc' = "read"
    /\ UNCHANGED records

\* traffic.py:316-319: disable the last remaining version
Disable ==
    /\ pc = "read"
    /\ partial_count = 0 /\ percentage = 0
    /\ new_record_weights' = [ i \in DOMAIN known_record_weights |-> 0 ]
    /\ pc' = "computed"
    /\ UNCHANGED << records, shifts, identifier, requested, percentage, rr,
                    known_record_weights, partial_count, partial_sum, delta,
                    deltas, compensations, calculation_error, part, visited,
                    left_error, ran, warnings, changes, sink_calls,
                    env, other, all_identifiers >>

\* Delta with the spare weight divided among the others and the target
DeltaOverAll(pct, psum, pcount) ==
    IF pcount # 0 THEN TruncDiv(FULL_PERCENTAGE - pct - psum, pcount + 1)
    ELSE 0

\* Delta that leaves out what the others hold already
DeltaIgnoresSum(pct, psum, pcount) ==
    IF pcount # 0 THEN TruncDiv(FULL_PERCENTAGE - pct, pcount) ELSE 0

\* Delta with the quotient floored
DeltaFloor(pct, psum, pcount) ==
    IF pcount # 0 THEN (FULL_PERCENTAGE - pct - psum) \div pcount ELSE 0

\* delta of traffic.py:323-326
Delta(pct, psum, pcount) ==
    IF pcount # 0 THEN TruncDiv(FULL_PERCENTAGE - pct - psum, pcount) ELSE 0

\* SoleSurvivor that never promotes
NoSoleSurvivor(pct, pcount) == pcount = 0 /\ pct > FULL_PERCENTAGE

\* traffic.py:327-330: the only live version is put to full traffic
SoleSurvivor(pct, pcount) == pcount = 0 /\ pct > 0

\* traffic.py:322-333: delta, calculate_new_weights and calculation_error
Calculate ==
    /\ pc = "read"
    /\ ~(partial_count = 0 /\ percentage = 0)
    /\ LET sole == SoleSurvivor(percentage, partial_count)
           pct  == IF sole THEN FULL_PERCENTAGE ELSE percentage
           d    == Delta(percentage, partial_sum, partial_count)
           c    == calculate_new_weights(d, identifier, known_record_weights, pct)
       IN  /\ delta' = d
           /\ compensations' =
                 IF sole THEN Assign(NoMap, identifier, FULL_PERCENTAGE - percentage)
                 ELSE NoMap
           /\ percentage' = pct
           /\ new_record_weights' = c.new_record_weights
           /\ deltas' = c.deltas
           /\ calculation_error' = FULL_PERCENTAGE - SumValues(c.new_record_weights)
    /\ ran' = ran \cup { "calculate_new_weights" }
    /\ pc' = "calculated"
    /\ UNCHANGED << records, shifts, identifier, requested, rr,
                    known_record_weights, partial_count, partial_sum, part,
                    visited, left_error, warnings, changes, sink_calls,
                    env, other, all_identifiers >>

\* NeedsCompensation for a positive error only
NeedsCompensationPositive(err) == err > 0 /\ err < FULL_PERCENTAGE

\* the condition of traffic.py:334
NeedsCompensation(err) == err # 0 /\ err < FULL_PERCENTAGE

\* traffic.py:334-337: compensate and the assertion on the total
Compensate ==
    /\ pc = "calculated"
    /\ NeedsCompensation(calculation_error)
    /\ LET c == compensate(calculation_error, compensations, identifier,
                           new_record_weights, partial_count, percentage,
                           identifier_versions)
       IN  /\ new_record_weights' = c.weights
           /\ compensations' = c.compensations
           /\ percentage' = c.percentage
           /\ part' = c.part
           /\ visited' = c.visited
           /\ left_error' = c.left_error
           /\ warnings' = warnings + c.warned
           /\ pc' = IF c.asserted /\ SumValues(c.weights) = FULL_PERCENTAGE
                    THEN "computed" ELSE "assertion_failed"
    /\ ran' = ran \cup { "compensate" }
    /\ UNCHANGED << records, shifts, identifier, requested, rr,
                    known_record_weights, partial_count, partial_sum, delta,
                    deltas, calculation_error, changes, sink_calls,
                    env, other, all_identifiers >>

\* traffic.py:334, 337: compensate is skipped, the total is asserted
SkipCompensate ==
    /\ pc = "calculated"
    /\ ~NeedsCompensation(calculation_error)
    /\ pc' = IF SumValues(new_record_weights) = FULL_PERCENTAGE
             THEN "computed" ELSE "assertion_failed"
    /\ UNCHANGED << records, shifts, identifier, requested, percentage, rr,
                    known_record_weights, partial_count, partial_sum, delta,
                    new_record_weights, deltas, compensations,
                    calculation_error, part, visited, left_error, ran,
                    warnings, changes, sink_calls,
                    env, other, all_identifiers >>

\* traffic.py:345, 105-140: build the change batch and send it to Route53
SetNewWeights ==
    /\ pc = "computed"
    /\ LET batch == ChangeList(DnsName, identifier, LbDnsName(identifier),
                               new_record_weights, rr)
       IN  /\ changes' = batch
           /\ IF HasChanges(batch)
              THEN /\ records' = change_resource_record_sets(records, batch)
                   /\ sink_calls' = sink_calls + 1
              ELSE UNCHANGED << records, sink_calls >>
    /\ pc' = "done"
    /\ UNCHANGED << shifts, identifier, requested, percentage, rr,
                    known_record_weights, partial_count, partial_sum, delta,
                    new_record_weights, deltas, compensations,
                    calculation_error, part, visited, left_error, ran,
                    warnings,
                    env, other, all_identifiers >>

\* change_version_traffic returns or raises: its local variables are gone
Return ==
    /\ pc \in { "done", "UsageError", "ValueError" }
    /\ pc' = "idle"
    /\ identifier' = 1
    /\ requested' = 0
    /\ percentage' = 0
    /\ rr' = << >>
    /\ known_record_weights' = NoMap
    /\ partial_count' = 0
    /\ partial_sum' = 0
    /\ delta' = 0
    /\ new_record_weights' = NoMap
    /\ deltas' = NoMap
    /\ compensations' = NoMap
    /\ calculation_error' = 0
    /\ part' = 0
    /\ visited' = << >>
    /\ left_error' = 0
    /\ ran' = {}
    /\ warnings' = 0
    /\ changes' = << >>
    /\ sink_calls' = 0
    /\ env' = Env(1, TRUE, TRUE)
    /\ other' = NoOther
    /\ all_identifiers' = {}
    /\ UNCHANGED << records, shifts >>

\* traffic.py:302-310: get_version, the domain check or get_zone raises
Fail(v, has_domain, zone_exists) ==
    /\ pc = "idle"
    /\ shifts < MaxShifts
    /\ Resolution(v, has_domain, zone_exists) # "ok"
    /\ pc' = Resolution(v, has_domain, zone_exists)
    /\ env' = Env(v, has_domain, zone_exists)
    /\ UNCHANGED << records, shifts, identifier, requested, percentage, rr,
                    known_record_weights, partial_count, partial_sum, delta,
                    new_record_weights, deltas, compensations,
                    calculation_error, part, visited, left_error, ran,
                    warnings, changes, sink_calls, other,
                    all_identifiers >>

Next ==
    \/ \E v \in Versions : \E h \in RequestPercents :
          \E d \in BOOLEAN : \E z \in BOOLEAN : Start(v, h, d, z)
    \/ \E v \in { 1, NumIds + 1 } : \E d \in BOOLEAN : \E z \in BOOLEAN :
          Fail(v, d, z)
    \/ Disable
    \/ Calculate
    \/ Compensate
    \/ SkipCompensate
    \/ SetNewWeights
    \/ Return

Spec == Init /\ [][Next]_vars

\* traffic.py:313-337 in one piece: the final weight map of an invocation for
\* the identifier ident and the weight pct on the records list
FinalWeights(ident, pct, list) ==
    LET g == get_weights(DnsName, ident, list, DOMAIN identifier_versions)
    IN  IF g.partial_count = 0 /\ pct = 0
        THEN [ i \in DOMAIN g.known |-> 0 ]
        ELSE
        LET sole  == SoleSurvivor(pct, g.partial_count)
            full  == IF sole THEN FULL_PERCENTAGE ELSE pct
            c     == calculate_new_weights(
                         Delta(pct, g.partial_sum, g.partial_count),
                         ident, g.known, full)
            err   == FULL_PERCENTAGE - SumValues(c.new_record_weights)
            comps == IF sole
                     THEN Assign(NoMap, ident, FULL_PERCENTAGE - pct)
                     ELSE NoMap
        IN  IF NeedsCompensation(err)
            THEN compensate(err, comps, ident, c.new_record_weights,
                            g.partial_count, full, identifier_versions).weights
            ELSE c.new_record_weights

\* traffic.py:311-345 in one piece: the record set after an invocation that
\* reads zone, computes and applies its batch with nothing in between
Shifted(zone, v, pct) ==
    LET list  == get_records(zone)
        batch == ChangeList(DnsName, v, LbDnsName(v),
                            FinalWeights(v, pct, list), list)
    IN  IF HasChanges(batch) THEN change_resource_record_sets(zone, batch)
        ELSE zone

\* the percentages the other process asks for, in hundredths of a percent:
\* none, the smallest step and all of the traffic
OtherPercents == { 0, 50, 10000 }

\* another process runs change_version_traffic on the same domain name: it
\* reads the records after this invocation has read them and applies its
\* batch before this invocation applies its own
OtherInvocation(v, hundredths) ==
    /\ pc = "computed"
    /\ other = NoOther
    /\ records' = Shifted(records, v, ToWeight(hundredths))
    /\ other' = [ version |-> v, percent |-> hundredths ]
    /\ UNCHANGED << pc, shifts, identifier, requested, percentage, rr,
                    known_record_weights, partial_count, partial_sum, delta,
                    new_record_weights, deltas, compensations,
                    calculation_error, part, visited, left_error, ran,
                    warnings, changes, sink_calls, env,
                    all_identifiers >>

\* the invocation that is raced is the first one on the record set
StartRace(v, hundredths, has_domain, zone_exists) ==
    /\ shifts = 0
    /\ Start(v, hundredths, has_domain, zone_exists)

NextRace ==
    \/ \E v \in Versions : \E h \in RequestPercents :
          \E d \in BOOLEAN : \E z \in BOOLEAN : StartRace(v, h, d, z)
    \/ \E v \in { 1, NumIds + 1 } : \E d \in BOOLEAN : \E z \in BOOLEAN :
          Fail(v, d, z)
    \/ Disable
    \/ Calculate
    \/ Compensate
    \/ SkipCompensate
    \/ SetNewWeights
    \/ Return
    \/ \E v \in Ids : \E h \in OtherPercents : OtherInvocation(v, h)

\* the record set sums to FULL before the first invocation
InitFull == Init /\ StoredSum(records) = FULL_PERCENTAGE

SpecFull == InitFull /\ [][Next]_vars

\* two processes on a record set that sums to FULL
SpecRace == InitFull /\ [][NextRace]_vars

(* ------------------------- notions of the claims ----------------------- *)

\* the weights have been computed (the assertions of the calculation passed)
Computed == pc \in { "computed", "done" }

\* the calculation of the weights has ended, by an assertion or not
Calculated == pc \in { "computed", "done", "assertion_failed" }

\* the identifiers of the weight map other than the target
Others == DOMAIN known_record_weights \ { identifier }

\* compensate left its loop with error # 0 and changed the target's weight
TargetShifted == "compensate" \in ran /\ left_error # 0

\* the records of DnsName that the invocation read
OldRecords == { rr[k] : k \in Matching(DnsName, rr) }

\* the batch holds a change with action act for the identifier i
HasChange(act, i) ==
    \E k \in 1 .. Len(changes) :
        /\ changes[k].Action = act
        /\ changes[k].ResourceRecordSet.SetIdentifier = i

(* ------------------------------- claims -------------------------------- *)

\* C1: conservation of the computed map. Whenever an invocation has computed
\* its final weight map (after calculate_new_weights and, when run, after
\* compensate) and some identifier has a non-zero final weight, the final
\* weights sum to exactly FULL_PERCENTAGE.
C1_Conservation ==
    ( /\ Calculated
      /\ \E i \in DOMAIN new_record_weights : new_record_weights[i] # 0 )
    => SumValues(new_record_weights) = FULL_PERCENTAGE

\* C1 witness: compensate has run on a negative error, moved weight between
\* several live versions, and the map sums to FULL.
C1_Witness ==
    /\ pc = "done"
    /\ "compensate" \in ran
    /\ calculation_error < 0
    /\ partial_count >= 2
    /\ visited # << >>
    /\ SumValues(new_record_weights) = FULL_PERCENTAGE

\* C2: conservation of the stored record set. Starting from a record set that
\* sums to FULL, between invocations (each batch applied before the next
\* read) the stored weights of the domain name sum to FULL, or no record with
\* a non-zero weight remains.
C2_StoredConservation ==
    pc \in { "idle", "done" }
    => \/ StoredSum(records) = FULL_PERCENTAGE
       \/ \A r \in StoredWeights(records) : r.Weight = 0

\* C3: floor. When the requested weight is not FULL, every identifier other
\* than the target whose stored weight was > 0 has a weight >= 1, after
\* calculate_new_weights and after compensate.
C3_Floor ==
    ( /\ pc \in { "calculated", "computed", "done", "assertion_failed" }
      /\ requested # FULL_PERCENTAGE )
    => \A i \in Others :
          known_record_weights[i] > 0 => new_record_weights[i] >= 1

\* C3 witness: compensate took weight from a live version and skipped another
\* live version that stays at the floor.
C3_Witness ==
    /\ pc = "done"
    /\ requested # FULL_PERCENTAGE
    /\ "compensate" \in ran
    /\ part < 0
    /\ visited # << >>
    /\ \E i \in Others :
          /\ known_record_weights[i] > 0
          /\ new_record_weights[i] = 1
          /\ i \notin DOMAIN compensations

\* C4: no resurrection. Every identifier other than the target whose weight
\* was 0 before the invocation has the final weight 0.
C4_NoResurrection ==
    Calculated
    => \A i \in Others :
          known_record_weights[i] = 0 => new_record_weights[i] = 0

\* C5: full cutover. When the requested weight is FULL, the target ends at
\* FULL, every other identifier at 0, compensate is not run, and the batch
\* holds a DELETE and no UPSERT for every other identifier with a record.
C5_FullCutover ==
    ( Calculated /\ requested = FULL_PERCENTAGE )
    => /\ new_record_weights[identifier] = FULL_PERCENTAGE
       /\ \A i \in Others : new_record_weights[i] = 0
       /\ "compensate" \notin ran
       /\ pc # "assertion_failed"
       /\ pc = "done" =>
             \A r \in OldRecords :
                r.SetIdentifier # identifier
                => /\ HasChange("DELETE", r.SetIdentifier)
                   /\ ~HasChange("UPSERT", r.SetIdentifier)

\* C5 witness: a full cutover with at least two other live versions.
C5_Witness ==
    /\ pc = "done"
    /\ requested = FULL_PERCENTAGE
    /\ partial_count >= 2
    /\ \E i \in Others : known_record_weights[i] > 0 /\ HasChange("DELETE", i)

\* C6: last-version disable. When no other identifier is live and the
\* requested weight is 0, every final weight is 0, neither
\* calculate_new_weights nor compensate is run, and the batch is exactly one
\* DELETE per existing record of the domain name.
C6_LastVersionDisable ==
    ( Calculated /\ partial_count = 0 /\ requested = 0 )
    => /\ \A i \in DOMAIN new_record_weights : new_record_weights[i] = 0
       /\ ran = {}
       /\ pc # "assertion_failed"
       /\ pc = "done" =>
             /\ Len(changes) = Cardinality(OldRecords)
             /\ \A k \in 1 .. Len(changes) :
                   /\ changes[k].Action = "DELETE"
                   /\ changes[k].ResourceRecordSet \in OldRecords
             /\ \A r \in OldRecords : HasChange("DELETE", r.SetIdentifier)

\* C6 witness: the last live version, holding FULL, is disabled.
C6_Witness ==
    /\ pc = "done"
    /\ partial_count = 0 /\ requested = 0
    /\ known_record_weights[identifier] = FULL_PERCENTAGE
    /\ HasChange("DELETE", identifier)

\* C7: sole-survivor promote. When no other identifier is live and the
\* requested weight p is > 0, delta is 0, the target ends at FULL, the gap
\* FULL - p is the compensation of the target, compensate is not run and no
\* warning is emitted.
C7_SoleSurvivor ==
    ( Calculated /\ partial_count = 0 /\ requested > 0 )
    => /\ delta = 0
       /\ new_record_weights[identifier] = FULL_PERCENTAGE
       /\ DOMAIN compensations = { identifier }
       /\ compensations[identifier] = FULL_PERCENTAGE - requested
       /\ "compensate" \notin ran
       /\ warnings = 0
       /\ pc # "assertion_failed"

\* C7 witness: a request below FULL on the only live version.
C7_Witness ==
    /\ pc = "done"
    /\ partial_count = 0
    /\ requested > 0 /\ requested < FULL_PERCENTAGE
    /\ new_record_weights[identifier] = FULL_PERCENTAGE

\* the record set holds exactly one identifier, at FULL, and it is the target
SingleSurvivor ==
    /\ Cardinality(OldRecords) = 1
    /\ \A r \in OldRecords :
          r.SetIdentifier = identifier /\ r.Weight = FULL_PERCENTAGE

\* C8: a request > 0 on the single survivor is a no-op. The final weights
\* equal the stored ones, the batch is empty, the sink is not called and the
\* record set is unchanged.
C8_SingleSurvivorNoOp ==
    ( Calculated /\ SingleSurvivor /\ requested > 0 )
    => /\ new_record_weights = known_record_weights
       /\ new_record_weights[identifier] = FULL_PERCENTAGE
       /\ pc # "assertion_failed"
       /\ pc = "done" =>
             /\ changes = << >>
             /\ sink_calls = 0
             /\ StoredWeights(records) = OldRecords

\* C8 witness: the single survivor is asked to go below FULL.
C8_Witness ==
    /\ pc = "done"
    /\ SingleSurvivor
    /\ requested > 0 /\ requested < FULL_PERCENTAGE

\* C9 as stated: the target's final weight differs from the requested weight
\* only when compensate left its loop with error # 0.
C9_OnlyCompensateAdjusts ==
    ( Computed /\ new_record_weights[identifier] # requested )
    => TargetShifted

\* C9 amended: the target's final weight differs from the requested weight
\* only when compensate left its loop with error # 0 and shifted the target,
\* or on the sole-survivor path (no other live identifier, requested > 0),
\* where it is FULL; on every other path it equals the requested weight.
C9_AdjustedOrSoleSurvivor ==
    Computed
    => /\ new_record_weights[identifier] # requested
          => \/ TargetShifted
             \/ /\ partial_count = 0 /\ requested > 0
                /\ new_record_weights[identifier] = FULL_PERCENTAGE
       /\ TargetShifted
          => new_record_weights[identifier] = requested + left_error

\* C9 witness: compensate shifted the target away from the requested weight.
C9_Witness ==
    /\ pc = "done"
    /\ TargetShifted
    /\ new_record_weights[identifier] # requested

\* C10: whenever compensate leaves its loop with error # 0 and changes the
\* target, every other identifier is at its floor: 1 if it was live, 0 if it
\* was disabled.
C10_OthersAtFloor ==
    ( Calculated /\ TargetShifted )
    => \A i \in Others :
          new_record_weights[i] = IF known_record_weights[i] > 0 THEN 1 ELSE 0

\* the stored record of DnsName with identifier i, as a set (empty if none)
StoredFor(zone, i) == { r \in StoredWeights(zone) : r.SetIdentifier = i }

\* C11: the batch realizes the final weight map. After the batch of one
\* invocation has been applied, every identifier of the final weight map has
\* a record of the domain name with its final weight if that weight is > 0,
\* and no record if it is 0, identifiers without a record before included.
C11_BatchRealizesMap ==
    pc = "done"
    => \A i \in DOMAIN new_record_weights :
          IF new_record_weights[i] > 0
          THEN \E r \in StoredFor(records, i) :
                   r.Weight = new_record_weights[i]
          ELSE StoredFor(records, i) = {}

\* the positions of the batch that concern the identifier i
ChangesFor(i) ==
    { k \in 1 .. Len(changes) : changes[k].ResourceRecordSet.SetIdentifier = i }

\* the batch holds exactly one change for the identifier i, and it is c
OnlyChange(i, c) ==
    /\ Cardinality(ChangesFor(i)) = 1
    /\ \A k \in ChangesFor(i) : changes[k] = c

\* C12 as stated: for every existing record of the domain name a change is
\* emitted only if the final weight differs from the stored weight (an UPSERT
\* with the new weight, a DELETE when the final weight is 0); a record whose
\* final weight equals its stored weight, a stored 0 included, has no change.
C12_ChangeOnlyIfDiffers ==
    pc = "done"
    => \A r \in OldRecords :
          LET i == r.SetIdentifier
              w == new_record_weights[i]
          IN  IF w = r.Weight THEN ChangesFor(i) = {}
              ELSE IF w = 0 THEN OnlyChange(i, Change("DELETE", r))
              ELSE OnlyChange(i, Change("UPSERT", [ r EXCEPT !.Weight = w ]))

\* C12 amended: every existing record of the domain name whose final weight
\* is 0 gets one DELETE and no UPSERT, whatever its stored weight (a stored
\* weight of 0 included); a record whose final weight is non-zero gets one
\* UPSERT carrying the new weight if that differs from the stored weight and
\* no change if it equals it.
C12_DiffPerRecord ==
    pc = "done"
    => \A r \in OldRecords :
          LET i == r.SetIdentifier
              w == new_record_weights[i]
          IN  IF w = 0 THEN OnlyChange(i, Change("DELETE", r))
              ELSE IF w # r.Weight
              THEN OnlyChange(i, Change("UPSERT", [ r EXCEPT !.Weight = w ]))
              ELSE ChangesFor(i) = {}

\* C12 witness: one batch with a DELETE of a record stored with weight 0, an
\* UPSERT of a changed record, and a record left alone at its weight.
C12_Witness ==
    /\ pc = "done"
    /\ \E r \in OldRecords :
          r.Weight = 0 /\ HasChange("DELETE", r.SetIdentifier)
    /\ \E r \in OldRecords :
          /\ new_record_weights[r.SetIdentifier] \notin { 0, r.Weight }
          /\ HasChange("UPSERT", r.SetIdentifier)
    /\ \E r \in OldRecords :
          /\ r.Weight # 0
          /\ new_record_weights[r.SetIdentifier] = r.Weight
          /\ ChangesFor(r.SetIdentifier) = {}

\* the positions of the batch that upsert a record of an identifier that had
\* no record of the domain name: the brand-new records
NewRecordChanges ==
    { k \in 1 .. Len(changes) :
        /\ changes[k].Action = "UPSERT"
        /\ \A r \in OldRecords :
              r.SetIdentifier # changes[k].ResourceRecordSet.SetIdentifier }

\* C13: new record only for the target. The batch holds an UPSERT of a
\* brand-new record if and only if the target's final weight is > 0 and no
\* existing record of the domain name has the target's identifier; that
\* record is (CNAME, the domain name, the target, the target's final weight,
\* TTL 20, the load balancer), there is one of it, an identifier that has a
\* record gets no second change, and no other identifier gets a new record.
C13_NewRecordOnlyForTarget ==
    pc = "done"
    => /\ NewRecordChanges # {}
          <=> /\ new_record_weights[identifier] > 0
              /\ \A r \in OldRecords : r.SetIdentifier # identifier
       /\ Cardinality(NewRecordChanges) <= 1
       /\ \A k \in NewRecordChanges :
             changes[k].ResourceRecordSet
             = Rec("CNAME", DnsName, identifier,
                   new_record_weights[identifier], NEW_RECORD_TTL,
                   LbDnsName(identifier))
       /\ \A r \in OldRecords : Cardinality(ChangesFor(r.SetIdentifier)) <= 1

\* C13 witness: the target had no record and gets a new one, while another
\* identifier without a record, known from the registry only, gets none.
C13_Witness ==
    /\ pc = "done"
    /\ NewRecordChanges # {}
    /\ \E i \in Others :
          /\ \A r \in OldRecords : r.SetIdentifier # i
          /\ ChangesFor(i) = {}
    /\ \E r \in OldRecords : HasChange("UPSERT", r.SetIdentifier)

\* the record set as the invocation read it
ReadRecords == { rr[k] : k \in 1 .. Len(rr) }

\* C14: sink call count. In one invocation change_resource_record_sets is
\* called exactly once, with the whole change list as one batch, when the
\* list is non-empty, and not at all when it is empty; never more than once,
\* and only after the weights have been computed.
C14_SinkCalledOnce ==
    /\ sink_calls \in { 0, 1 }
    /\ sink_calls = 1
       => /\ pc = "done"
          /\ new_record_weights # NoMap
          /\ changes # << >>
          /\ records = change_resource_record_sets(ReadRecords, changes)
    /\ (pc = "done" /\ changes # << >>) => sink_calls = 1
    /\ (pc = "done" /\ changes = << >>)
       => sink_calls = 0 /\ records = ReadRecords

\* C14 witness: a batch of several changes went to the sink in one call.
C14_Witness ==
    /\ pc = "done"
    /\ Len(changes) >= 3
    /\ sink_calls = 1
    /\ records # ReadRecords

\* the change list of a second run of set_new_weights, with the same final
\* weight map, on the records as the first run left them
SecondRun ==
    ChangeList(DnsName, identifier, LbDnsName(identifier),
               new_record_weights, get_records(records))

\* C15: idempotence of the change-set builder. A second run of
\* set_new_weights with the same final weight map, on the record set as the
\* first run left it, builds an empty change list and calls no sink.
C15_SecondRunEmpty ==
    pc = "done" => (SecondRun = << >> /\ ~HasChanges(SecondRun))

\* C15 witness: the first run deleted a record, upserted another and created
\* the target's record; the second run finds nothing to change.
C15_Witness ==
    /\ pc = "done"
    /\ sink_calls = 1
    /\ \E i \in Others : HasChange("DELETE", i)
    /\ \E i \in Others : HasChange("UPSERT", i)
    /\ NewRecordChanges # {}
    /\ SecondRun = << >>

\* the request cannot be served: the version is not in the registry, it has
\* no domain, or the zone of the domain does not exist
BadRequest(e) ==
    \/ \A i \in DOMAIN identifier_versions : identifier_versions[i] # e.version
    \/ ~e.domain
    \/ ~e.zone

\* C16: no mutation on usage and not-found errors. An invocation whose target
\* version is not in the registry, or has no domain, or whose zone does not
\* exist, ends with an error: no record is read, no weight is computed, the
\* sink is not called and the record set is unchanged.
C16_NoMutationOnError ==
    [][ (pc' # "idle" /\ BadRequest(env'))
        => /\ pc' \in { "UsageError", "ValueError" }
           /\ records' = records
           /\ sink_calls' = 0
           /\ changes' = << >>
           /\ rr' = << >>
           /\ known_record_weights' = NoMap
           /\ new_record_weights' = NoMap
           /\ ran' = {} ]_vars

\* C16 witness: the zone of a known version with a domain does not exist;
\* the invocation ended with the ValueError of get_zone, the records with
\* their weights untouched.
C16_Witness ==
    /\ pc = "ValueError"
    /\ env.zone = FALSE
    /\ env.domain
    /\ StoredSum(records) = FULL_PERCENTAGE
    /\ sink_calls = 0
    /\ new_record_weights = NoMap

\* C17: the assertions are unreachable failures. No invocation ends in a
\* failed assertion: compensate is only invoked with partial_count > 0, it
\* returns with the error used up, and after the calculation the weights sum
\* to FULL; the sink is only called after the assertions have passed.
C17_AssertionsHold ==
    /\ pc # "assertion_failed"
    /\ "compensate" \in ran => partial_count > 0
    /\ ("compensate" \in ran /\ Calculated)
       => SumValues(compensations) = calculation_error
    /\ ("calculate_new_weights" \in ran /\ Calculated)
       => SumValues(new_record_weights) = FULL_PERCENTAGE
    /\ sink_calls > 0 => pc = "done"

\* C17 witness: an invocation that went through compensate with an error the
\* loop could not place, passed the assertions and called the sink.
C17_Witness ==
    /\ pc = "done"
    /\ "compensate" \in ran
    /\ left_error # 0
    /\ visited # << >>
    /\ sink_calls = 1
    /\ SumValues(new_record_weights) = FULL_PERCENTAGE

\* C18: warning exactly when adjusted. An invocation warns at most once, and
\* it warns if and only if compensate changed the target's weight away from
\* the requested weight; the invocation then passes the assertions, and the
\* batch it applies gives the target the adjusted weight.
C18_WarningIffAdjusted ==
    /\ warnings \in { 0, 1 }
    /\ ~Calculated => warnings = 0
    /\ Calculated
       => ( warnings = 1
            <=> /\ "compensate" \in ran
                /\ new_record_weights[identifier] # requested )
    /\ (Calculated /\ warnings = 1)
       => /\ pc # "assertion_failed"
          /\ new_record_weights[identifier] = requested + left_error
          /\ percentage = new_record_weights[identifier]
    /\ (pc = "done" /\ warnings = 1)
       => IF new_record_weights[identifier] > 0
          THEN \E r \in StoredFor(records, identifier) :
                   r.Weight = new_record_weights[identifier]
          ELSE StoredFor(records, identifier) = {}

\* C18 witness: compensate lowered the target below the requested weight,
\* warned once, and the applied batch stored the lowered weight.
C18_Witness ==
    /\ pc = "done"
    /\ warnings = 1
    /\ 0 < new_record_weights[identifier]
    /\ new_record_weights[identifier] < requested
    /\ HasChange("UPSERT", identifier)

\* the weight calculate_new_weights gave the identifier i, before compensate
Allocated(i) == known_record_weights[i] + deltas[i]

\* the identifiers the loop of compensate gave a compensation to
Compensated == { visited[k] : k \in 1 .. Len(visited) }

Conserved(zone) == StoredSum(zone) \in { 0, FULL_PERCENTAGE }

\* every non-target identifier with a final weight has a record to carry it
\* (no identifier without a record was given weight by compensate, claim C4)
NoLostWeight ==
    \A i \in Others :
        new_record_weights[i] > 0 => \E r \in OldRecords : r.SetIdentifier = i

\* the invocation applies its batch to the records it read
Unraced == other = NoOther

\* the record set had the two invocations run one after the other, this one
\* first, or the other one first
ThisThenOther ==
    Shifted(Shifted(ReadRecords, identifier, requested),
            other.version, ToWeight(other.percent))

OtherThenThis ==
    Shifted(Shifted(ReadRecords, other.version, ToWeight(other.percent)),
            identifier, requested)

\* C20: uncoordinated concurrent shifts race. With two invocations that both
\* read before either applies, the stored weights can end at a sum that is
\* neither FULL nor 0 (the witness), and no step stands in the way; an
\* invocation that applies its batch to the records it read (one run after
\* the other) takes a record set that sums to FULL or 0 to one that does,
\* unless compensate gave weight to an identifier without a record.
C20_SequentialConserves ==
    [][ ( /\ pc = "computed" /\ pc' = "done"
          /\ Unraced
          /\ Conserved(records)
          /\ NoLostWeight )
        => Conserved(records') ]_vars

\* C20 witness: both invocations read a record set that sums to FULL, the
\* other applied its batch first, this one applied its batch (UPSERTs only)
\* computed from the old records, and the stored sum is neither FULL nor 0,
\* while either order of the same two invocations one after the other ends
\* at FULL or 0.
C20_Witness ==
    /\ pc = "done"
    /\ ~Unraced
    /\ changes # << >>
    /\ \A k \in 1 .. Len(changes) : changes[k].Action = "UPSERT"
    /\ StoredSum(ReadRecords) = FULL_PERCENTAGE
    /\ ~Conserved(records)
    /\ Conserved(ThisThenOther)
    /\ Conserved(OtherThenThis)

(* ------------------- the functions called on their own ------------------ *)

\* the largest error magnitude and the largest count compensate is tried with
MaxError == 30
MaxCount == 4

\* nothing is running and no function has been called
InitUnit ==
    /\ records = ForeignRecords
    /\ pc = "idle"
    /\ shifts = 0
    /\ Locals0

\* traffic.py:73-77: compensate computes part from the error and the count
CallPart(err, count) ==
    /\ pc = "idle"
    /\ calculation_error' = err
    /\ partial_count' = count
    /\ part' = Part(err, count)
    /\ pc' = "part"
    /\ UNCHANGED << records, shifts, identifier, requested, percentage, rr,
                    known_record_weights, partial_sum, delta,
                    new_record_weights, deltas, compensations, visited,
                    left_error, ran, warnings, changes, sink_calls, env,
                    other, all_identifiers >>

\* the weights of the records the reader is tried on
UnitWeights == { 0, 1, FULL_PERCENTAGE \div 2 }

\* traffic.py:12-38: get_weights on a record list, for an identifier and a
\* registry of its own
CallGetWeights(w, ident, registry) ==
    /\ pc = "idle"
    /\ rr' = get_records(ForeignRecords \cup StackRecords(w))
    /\ identifier' = ident
    /\ all_identifiers' = registry
    /\ LET g == get_weights(DnsName, ident, rr', registry)
       IN  /\ known_record_weights' = g.known
           /\ partial_count' = g.partial_count
           /\ partial_sum' = g.partial_sum
    /\ pc' = "weights"
    /\ UNCHANGED << records, shifts, requested, percentage, delta,
                    new_record_weights, deltas, compensations,
                    calculation_error, part, visited, left_error, ran,
                    warnings, changes, sink_calls, env, other >>

\* one call of one function, on inputs chosen while nothing is running
NextUnit ==
    \/ /\ pc = "idle"
       /\ \E err \in (-MaxError .. MaxError) \ { 0 } : \E count \in 1 .. MaxCount :
             CallPart(err, count)
    \/ /\ pc = "idle"
       /\ \E S \in SUBSET Ids : \E w \in [S -> UnitWeights] :
             \E ident \in Versions : \E registry \in SUBSET Ids :
                 CallGetWeights(w, ident, registry)

SpecUnit == InitUnit /\ [][NextUnit]_vars

\* the magnitude of an integer
Abs(x) == IF x < 0 THEN -x ELSE x

\* C21 as stated: part has the sign of the error and the magnitude
\* max(1, ceil(|error| / partial_count)), the quotient rounded away from
\* zero (error 3, count 2 gives 2; error -26, count 4 gives -7).
C21_PartRoundsAway ==
    pc = "part"
    => /\ (part > 0) = (calculation_error > 0)
       /\ Abs(part) >= 1
       /\ Abs(part) * partial_count >= Abs(calculation_error)
       /\ Abs(calculation_error) >= partial_count
          => (Abs(part) - 1) * partial_count < Abs(calculation_error)

\* C21 amended: part has the sign of the error and the magnitude
\* max(1, floor(|error| / partial_count)), the quotient truncated toward
\* zero and raised to 1 when it is smaller (error 3, count 2 gives 1; error
\* -26, count 4 gives -6).
C21_PartTruncates ==
    pc = "part"
    => /\ part # 0
       /\ (part > 0) = (calculation_error > 0)
       /\ IF Abs(calculation_error) < partial_count
          THEN Abs(part) = 1
          ELSE /\ Abs(part) * partial_count <= Abs(calculation_error)
               /\ (Abs(part) + 1) * partial_count > Abs(calculation_error)

\* C21 witness: error -26 over 4 candidates gives part -6, which leaves -2.
C21_Witness ==
    /\ pc = "part"
    /\ calculation_error = -26
    /\ partial_count = 4
    /\ part = -6

\* what delta divides: the weight left for the others minus what they hold
Spare == FULL_PERCENTAGE - requested - partial_sum

\* C22: delta rounding. With partial_count > 0, delta is the quotient
\* (FULL - requested weight - partial_sum) / partial_count truncated toward
\* zero, not floored; and every non-target identifier with an old weight
\* w > 0 is allocated max(1, w + delta) when the requested weight is not FULL.
C22_DeltaTruncates ==
    (Calculated /\ "calculate_new_weights" \in ran /\ partial_count > 0)
    => /\ Abs(delta) * partial_count <= Abs(Spare)
       /\ (Abs(delta) + 1) * partial_count > Abs(Spare)
       /\ delta > 0 => Spare > 0
       /\ delta < 0 => Spare < 0
       /\ requested # FULL_PERCENTAGE
          => \A i \in Others :
                known_record_weights[i] > 0
                => Allocated(i) = Max(1, known_record_weights[i] + delta)

\* C22 witness: a negative quotient with a remainder was cut toward zero, one
\* identifier took the whole delta and stayed above the floor.
C22_Witness ==
    /\ pc = "done"
    /\ partial_count >= 2
    /\ delta < 0
    /\ delta * partial_count # Spare
    /\ \E i \in Others :
          /\ known_record_weights[i] > 0
          /\ Allocated(i) = known_record_weights[i] + delta
          /\ Allocated(i) > 1

\* the CNAME records of the domain name in the list read
NameRecords ==
    { r \in ReadRecords : r.Type = "CNAME" /\ r.Name = DnsName }

\* the identifiers of the map, the target apart, that have weight > 0
LiveOthers ==
    { i \in DOMAIN known_record_weights \ { identifier } :
        known_record_weights[i] > 0 }

\* C23: snapshot reader. With at most one CNAME record per identifier for the
\* domain name, get_weights returns a map over the record identifiers of
\* that name, the target and the registry identifiers, with the stored
\* weight for a record and 0 for an identifier without one; partial_count
\* and partial_sum are the number and the sum of the entries that are not
\* the target and are > 0; records of another type or name add nothing.
C23_SnapshotReader ==
    pc = "weights"
    => /\ DOMAIN known_record_weights
          = { r.SetIdentifier : r \in NameRecords } \cup { identifier }
            \cup all_identifiers
       /\ \A r \in NameRecords : known_record_weights[r.SetIdentifier] = r.Weight
       /\ \A i \in DOMAIN known_record_weights :
             (\A r \in NameRecords : r.SetIdentifier # i)
             => known_record_weights[i] = 0
       /\ partial_count = Cardinality(LiveOthers)
       /\ partial_sum = SumOver(known_record_weights, LiveOthers)

\* C23 witness: the target has a live record that is not counted, another
\* is counted, one record has weight 0, one identifier is known from the
\* registry only, one record has an identifier the registry lacks, and the
\* list holds records of another name and of another type.
C23_Witness ==
    /\ pc = "weights"
    /\ \E r \in NameRecords : r.SetIdentifier = identifier /\ r.Weight > 0
    /\ partial_count = 1
    /\ partial_sum > 0
    /\ \E r \in NameRecords : r.Weight = 0
    /\ \E i \in all_identifiers : \A r \in NameRecords : r.SetIdentifier # i
    /\ \E r \in NameRecords : r.SetIdentifier \notin all_identifiers
    /\ \E r \in ReadRecords : r.Name # DnsName
    /\ \E r \in ReadRecords : r.Name = DnsName /\ r.Type # "CNAME"

\* the identifiers other than the target that were live before and that
\* calculate_new_weights did not clamp to the floor
Unclamped ==
    { i \in Others :
        known_record_weights[i] > 0 /\ known_record_weights[i] + delta >= 1 }

\* final weight minus old weight
TotalChange(i) == new_record_weights[i] - known_record_weights[i]

\* C24: even spread. On the general path (partial_count > 0, requested
\* weight not FULL), the total changes of any two identifiers other than the
\* target that were live and were not clamped to the floor differ by at most
\* |part|, and by 0 when compensate is not run.
C24_EvenSpread ==
    ( /\ Calculated /\ "calculate_new_weights" \in ran
      /\ partial_count > 0 /\ requested # FULL_PERCENTAGE )
    => \A i, j \in Unclamped :
          /\ Abs(TotalChange(i) - TotalChange(j)) <= Abs(part)
          /\ "compensate" \notin ran => TotalChange(i) = TotalChange(j)

\* C24 witness: compensate ran, and of two unclamped identifiers one took
\* the compensation and the other did not.
C24_Witness ==
    /\ pc = "done"
    /\ "compensate" \in ran
    /\ partial_count > 0 /\ requested # FULL_PERCENTAGE
    /\ delta # 0
    /\ \E i, j \in Unclamped :
          /\ TotalChange(i) - TotalChange(j) = part
          /\ part # 0

\* the general path: calculate_new_weights ran with live identifiers other
\* than the target
GeneralPath ==
    Calculated /\ "calculate_new_weights" \in ran /\ partial_count > 0

\* C25: a positive rounding error never reaches the target. On the general
\* path an error > 0 is smaller than partial_count, part is 1, and the loop
\* of compensate brings the error to 0 by giving 1 to error-many candidates;
\* the target's final weight is never above the requested weight, and what
\* compensate leaves to the target is never positive.
C25_PositiveErrorAbsorbed ==
    GeneralPath
    => /\ calculation_error > 0
          => /\ calculation_error < partial_count
             /\ "compensate" \in ran
             /\ part = 1
             /\ Len(visited) = calculation_error
             /\ \A i \in Compensated : compensations[i] = 1
             /\ left_error = 0
             /\ warnings = 0
             /\ new_record_weights[identifier] = requested
       /\ "compensate" \in ran => left_error <= 0
       /\ new_record_weights[identifier] <= requested

\* C25 witness: an error of 2 over at least three live identifiers was given
\* to two of them, one unit each, and the target kept the requested weight.
C25_Witness ==
    /\ pc = "done"
    /\ GeneralPath
    /\ calculation_error = 2
    /\ Len(visited) = 2
    /\ new_record_weights[identifier] = requested

(* --------------------- the same request again and again ----------------- *)

\* the batch an invocation for the identifier v and the weight pct builds on
\* the records of zone (traffic.py:311-345 up to the call of the sink)
Batch(zone, v, pct) ==
    LET list == get_records(zone)
    IN  ChangeList(DnsName, v, LbDnsName(v), FinalWeights(v, pct, list), list)

\* the percentages of the repeated request, in hundredths of a percent: the
\* smallest weight, half and the largest weight below FULL
RepeatPercents == { 50, 5000, 9950 }

\* the operator decides on the request that will be repeated
Ask(v, hundredths) ==
    /\ pc = "idle"
    /\ identifier' = v
    /\ requested' = ToWeight(hundredths)
    /\ pc' = "repeating"
    /\ UNCHANGED << records, shifts, percentage, rr, known_record_weights,
                    partial_count, partial_sum, delta, new_record_weights,
                    deltas, compensations, calculation_error, part, visited,
                    left_error, ran, warnings, changes, sink_calls, env,
                    other, all_identifiers >>

\* one more invocation of the request; its batch is not empty and is applied
Again ==
    /\ pc = "repeating"
    /\ HasChanges(Batch(records, identifier, requested))
    /\ records' = Shifted(records, identifier, requested)
    /\ changes' = Batch(records, identifier, requested)
    /\ UNCHANGED << pc, shifts, identifier, requested, percentage, rr,
                    known_record_weights, partial_count, partial_sum, delta,
                    new_record_weights, deltas, compensations,
                    calculation_error, part, visited, left_error, ran,
                    warnings, sink_calls, env, other, all_identifiers >>

\* one more invocation of the request; its batch is empty ("not changed")
Settled ==
    /\ pc = "repeating"
    /\ ~HasChanges(Batch(records, identifier, requested))
    /\ pc' = "settled"
    /\ changes' = << >>
    /\ UNCHANGED << records, shifts, identifier, requested, percentage, rr,
                    known_record_weights, partial_count, partial_sum, delta,
                    new_record_weights, deltas, compensations,
                    calculation_error, part, visited, left_error, ran,
                    warnings, sink_calls, env, other, all_identifiers >>

NextRepeat ==
    \/ \E v \in Ids : \E h \in RepeatPercents : Ask(v, h)
    \/ Again
    \/ Settled

SpecRepeat == InitFull /\ [][NextRepeat]_vars

\* the stored weight of the target, 0 without a record
TargetWeight(zone) ==
    SumRecords(StoredFor(zone, identifier))

\* how far the record set is from the request: the distance of the target
\* from the weight asked for, then the weight missing to FULL, then the
\* number of records with weight 0
Gap(zone) == Abs(requested - TargetWeight(zone))
Deficit(zone) == FULL_PERCENTAGE - StoredSum(zone)
Zeros(zone) == Cardinality({ r \in StoredWeights(zone) : r.Weight = 0 })

\* the second record set is closer to the request than the first
Closer(a, b) ==
    \/ Gap(b) < Gap(a)
    \/ Gap(b) = Gap(a) /\ Deficit(b) < Deficit(a)
    \/ Gap(b) = Gap(a) /\ Deficit(b) = Deficit(a) /\ Zeros(b) < Zeros(a)

\* C26: repeating a request converges. From a record set that sums to FULL,
\* the same request (same target, same weight p, 0 < p < FULL) issued again
\* and again, each batch applied before the next read, reaches a record set
\* that one more identical invocation leaves unchanged: every invocation
\* with a non-empty batch brings the record set closer to the request in a
\* measure that cannot fall forever. In the record set that is left alone
\* the target's weight is p, or every other identifier with a record has
\* weight 1.
C26_RepeatConverges ==
    /\ [][ (pc = "repeating" /\ pc' = "repeating")
           => /\ Closer(records, records')
              /\ Deficit(records') >= 0 ]_vars
    /\ [](pc = "settled"
          => \/ TargetWeight(records) = requested
             \/ \A r \in StoredWeights(records) :
                   r.SetIdentifier # identifier => r.Weight = 1)

\* C26 witness: the request settled after several batches on a target below
\* the weight asked for, every other record at weight 1.
C26_Witness ==
    /\ pc = "settled"
    /\ 0 < TargetWeight(records)
    /\ TargetWeight(records) < requested
    /\ \E r \in StoredWeights(records) : r.SetIdentifier # identifier

\* a weight Route53 can take from this tool
InRange(w) == w \in 0 .. FULL_PERCENTAGE

\* C27: weights stay in range. With stored weights that are non-negative and
\* sum to at most FULL and a requested weight in 0..FULL, every final
\* weight, the target's weight adjusted by compensate included, is in
\* 0..FULL, and no change of a batch carries a negative weight.
C27_WeightsInRange ==
    ( /\ Calculated
      /\ SumValues(known_record_weights) <= FULL_PERCENTAGE
      /\ \A i \in DOMAIN known_record_weights : known_record_weights[i] >= 0
      /\ InRange(requested) )
    => /\ \A i \in DOMAIN new_record_weights : InRange(new_record_weights[i])
       /\ InRange(percentage)
       /\ \A k \in 1 .. Len(changes) :
             InRange(changes[k].ResourceRecordSet.Weight)

\* C27 witness: compensate lowered the target far below the requested weight
\* and took from another identifier; all weights of the batch are in range.
C27_Witness ==
    /\ pc = "done"
    /\ warnings = 1
    /\ new_record_weights[identifier] < requested
    /\ visited # << >>
    /\ Len(changes) >= 2
    /\ \A k \in 1 .. Len(changes) : InRange(changes[k].ResourceRecordSet.Weight)

\* C28: requesting the current weight changes no weight. On a record set
\* that sums to FULL, a request for the weight the target has stored gives
\* delta = 0 and error = 0 (or the sole-survivor path with the target at
\* FULL already), every final weight is the old weight, compensate is not
\* run, and the batch holds no UPSERT.
C28_CurrentWeightNoChange ==
    ( /\ Calculated
      /\ StoredSum(ReadRecords) = FULL_PERCENTAGE
      /\ requested = known_record_weights[identifier] )
    => /\ delta = 0
       /\ calculation_error = 0
       /\ "compensate" \notin ran
       /\ new_record_weights = known_record_weights
       /\ \A k \in 1 .. Len(changes) : changes[k].Action # "UPSERT"

\* C28 witness: the target holds half of the traffic, two others share the
\* rest, the request asks for that half again, and nothing is sent.
C28_Witness ==
    /\ pc = "done"
    /\ StoredSum(ReadRecords) = FULL_PERCENTAGE
    /\ requested = known_record_weights[identifier]
    /\ requested = FULL_PERCENTAGE \div 2
    /\ partial_count = 2
    /\ new_record_weights = known_record_weights
    /\ changes = << >>
    /\ sink_calls = 0

(* ------------------------- dump_traffic_changes ------------------------- *)

\* traffic.py:158, 162: compensations.get(i), shown as no value when 0
CompensationOf(comps, i) == IF i \in DOMAIN comps THEN comps[i] ELSE 0

\* traffic.py:166: some final weight is the full weight
full_switch(weights) ==
    \E i \in DOMAIN weights :
        /\ weights[i] = FULL_PERCENTAGE
        /\ \A j \in DOMAIN weights : weights[j] <= FULL_PERCENTAGE

\* traffic.py:168-172: the delta of a row, before it is scaled for display
RowDelta(weights, comps, ds, i) ==
    LET d == ds[i]
        c == CompensationOf(comps, i)
    IN  IF full_switch(weights) /\ d = 0 /\ c # 0 THEN -c ELSE d

\* C29: accounting identity of the report. On the general path
\* (partial_count > 0), for every identifier of the weight map, final weight
\* = old weight + deltas[i] + compensations[i] with a missing compensation
\* counted as 0; each non-target identifier receives at most one compensation
\* and it equals part; the target's compensation, when present, is the error
\* left after the loop. The delta of a report row is deltas[i] there.
C29_AccountingIdentity ==
    GeneralPath
    => /\ DOMAIN deltas = DOMAIN known_record_weights
       /\ DOMAIN new_record_weights = DOMAIN known_record_weights
       /\ DOMAIN compensations \subseteq DOMAIN known_record_weights
       /\ \A i \in DOMAIN known_record_weights :
             /\ new_record_weights[i]
                   = known_record_weights[i] + deltas[i]
                       + CompensationOf(compensations, i)
             /\ RowDelta(new_record_weights, compensations, deltas, i)
                   = deltas[i]
       /\ \A i \in DOMAIN compensations \ { identifier } :
             /\ compensations[i] = part
             /\ Cardinality({ k \in 1 .. Len(visited) : visited[k] = i }) = 1
       /\ \A k \in 1 .. Len(visited) : visited[k] \in DOMAIN compensations \ { identifier }
       /\ identifier \in DOMAIN compensations
             => /\ compensations[identifier] = left_error
                /\ left_error # 0
                /\ "compensate" \in ran

\* C29 witness: a run whose report has all three terms: a non-target with a
\* delta and a compensation of part, and a target with a delta and the
\* error left by the loop as compensation.
C29_Witness ==
    /\ pc = "done"
    /\ GeneralPath
    /\ identifier \in DOMAIN compensations
    /\ compensations[identifier] = left_error
    /\ deltas[identifier] # 0
    /\ \E i \in DOMAIN compensations \ { identifier } :
          /\ compensations[i] = part
          /\ deltas[i] # 0
          /\ new_record_weights[i] = known_record_weights[i] + deltas[i] + part
    /\ new_record_weights[identifier]
          = known_record_weights[identifier] + deltas[identifier] + left_error

\* the stored records of the identifier of a change
StoredLike(c) ==
    { o \in OldRecords : o.SetIdentifier = c.ResourceRecordSet.SetIdentifier }

\* C30: frame of the change batch. An UPSERT of an existing record changes
\* only that record's weight (name, type, set-identifier, TTL and target
\* value are those of the stored record); a DELETE carries the record exactly
\* as stored, its stored weight included; records of another name or type
\* never appear in the batch; and with one record per identifier the batch
\* holds at most one change per identifier.
C30_BatchFrame ==
    pc = "done"
    => /\ \A k \in 1 .. Len(changes) :
             LET c == changes[k]
                 r == c.ResourceRecordSet
             IN  /\ r.Type = "CNAME" /\ r.Name = DnsName
                 /\ r \notin ForeignRecords
                 /\ c.Action \in { "UPSERT", "DELETE" }
                 /\ c.Action = "DELETE" => r \in OldRecords
                 /\ (c.Action = "UPSERT" /\ StoredLike(c) # {})
                       => \A o \in StoredLike(c) :
                             /\ r = [ o EXCEPT !.Weight = r.Weight ]
                             /\ r.Weight = new_record_weights[r.SetIdentifier]
                             /\ r.Weight # o.Weight
       /\ \A k, m \in 1 .. Len(changes) :
             changes[k].ResourceRecordSet.SetIdentifier
                = changes[m].ResourceRecordSet.SetIdentifier => k = m

\* C30 witness: a cut-over whose batch raises the stored record of the target
\* and deletes another record with the weight it had, while records of
\* another name and of another type were in the list that was read.
C30_Witness ==
    /\ pc = "done"
    /\ \A f \in ForeignRecords : \E k \in 1 .. Len(rr) : rr[k] = f
    /\ \E k \in 1 .. Len(changes) :
          /\ changes[k].Action = "UPSERT"
          /\ changes[k].ResourceRecordSet.SetIdentifier = identifier
          /\ changes[k].ResourceRecordSet.TTL # NEW_RECORD_TTL
          /\ StoredLike(changes[k]) # {}
    /\ \E k \in 1 .. Len(changes) :
          /\ changes[k].Action = "DELETE"
          /\ changes[k].ResourceRecordSet.Weight > 0
          /\ changes[k].ResourceRecordSet \in OldRecords

====
